---- MODULE Spec2Model ----
(***************************************************************************)
(* PuzzleDecoder (src/decoder.py): the fragment store, the concurrent      *)
(* batch fetch and the three-phase search strategy, as a state machine.    *)
(*                                                                         *)
(* The strategy is one control flow (pc); it suspends only inside          *)
(* fetch_batch, where the fetch_fragment tasks of the batch run            *)
(* interleaved.  Spec runs the code with scaled-down limits and every      *)
(* interleaving of a batch's tasks; SpecE2E runs it with the limits of the *)
(* source and a batch settled in one step.                                 *)
(***************************************************************************)
EXTENDS Integers, Sequences, FiniteSets, TLC

VARIABLES
    cfg,                  \* the limits of the run (max_concurrent and the literals)
    service,              \* the remote service: the fragments it holds
    open_ids,             \* identifiers the service has not answered for yet
    reliable,             \* FALSE: a probe of a held fragment may fail
    random_ids,           \* Phase 1's random sample
    fragments,            \* self.fragments, a dict in insertion order
    seen_ids,             \* self.seen_ids
    pc,                   \* where the strategy's control flow stands
    i,                    \* the loop offset of the Phase 1 / Phase 2 for loop
    remaining_ids,        \* Phase 2's list of identifiers to search (see RemainingIds)
    search_id,            \* Phase 3's window start
    consecutive_failures, \* Phase 3's counter
    tasks,                \* the tasks of the batch being awaited
    message,              \* what solve_puzzle returned
    probed,               \* history: identifiers a request was issued for
    idle_windows,         \* history: Phase 3 windows since a fragment was found
    failures              \* history: probes of a held fragment that failed

vars == <<cfg, service, open_ids, reliable, random_ids, fragments, seen_ids, pc, i,
          remaining_ids, search_id, consecutive_failures, tasks, message,
          probed, idle_windows, failures>>

(***************************************************************************)
(* Limits.  The upper-case names are the values of the source; the Small*  *)
(* names bound the runs of Spec.                                           *)
(***************************************************************************)
MAX_CONCURRENT == 30
SAMPLE_SIZE == 50
LOW_RANGE == 1000
GAP_RANGE == 10000
GIVE_UP == 100

SmallConcurrent == 2
SmallSample == 3
SmallGiveUp == 2
\* identifiers 1 .. SmallLowRange-1 are the low range of Spec
SmallLowRange == SmallSample + 1
\* identifiers 1 .. SmallGapRange-1 are the Phase 2 range of Spec
SmallGapRange == SmallLowRange + 1
\* the service of Spec holds at most MaxFragments fragments,
MaxFragments == 2
\* with sequence indices 0 .. MaxIndex,
MaxIndex == MaxFragments - 1
\* and fails at most MaxFailures probes of fragments it holds
MaxFailures == 1
\* the sample starts tried in SpecE2E: 1 .. MaxStart and the top of the range
MaxStart == 11
\* SpecStore stores fragments of identifiers 1 .. StoreMaxId
StoreMaxId == 4
\* at indices 0 .. StoreMaxIndex
StoreMaxIndex == 2
\* a Phase 3 loop that skips every window is followed for MaxSpin windows
MaxSpin == 3
\* the service of SpecMalformed holds at most MaxMalformed ill-typed fragments
MaxMalformed == 1

DefaultCfg ==
    [max_concurrent |-> MAX_CONCURRENT, sample_size |-> SAMPLE_SIZE,
     low_range |-> LOW_RANGE, gap_range |-> GAP_RANGE, give_up |-> GIVE_UP]

SmallCfg ==
    [max_concurrent |-> SmallConcurrent, sample_size |-> SmallSample,
     low_range |-> SmallLowRange, gap_range |-> SmallGapRange,
     give_up |-> SmallGiveUp]

Min(a, b) == IF a < b THEN a ELSE b

(***************************************************************************)
(* Fragment, and the dict self.fragments: a sequence of (key, value)       *)
(* entries in insertion order, as a Python dict keeps them.                *)
(***************************************************************************)
Fragment(id, index, text) == [id |-> id, index |-> index, text |-> text]

DictKeys(d) == {d[j].k : j \in 1..Len(d)}

DictHas(d, k) == \E j \in 1..Len(d) : d[j].k = k

DictGet(d, k) == d[CHOOSE j \in 1..Len(d) : d[j].k = k].v

\* mutant of DictSet: an existing key keeps its first value
DictSetKeepFirst(d, k, v) ==
    IF DictHas(d, k) THEN d ELSE Append(d, [k |-> k, v |-> v])

\* d[k] = v: an existing key keeps its place and takes the new value
DictSet(d, k, v) ==
    IF DictHas(d, k)
    THEN [j \in 1..Len(d) |-> IF d[j].k = k THEN [k |-> k, v |-> v] ELSE d[j]]
    ELSE Append(d, [k |-> k, v |-> v])

\* max(self.fragments.keys())
MaxKey(d) == CHOOSE m \in DictKeys(d) : \A k \in DictKeys(d) : k <= m

\* for i in range(max_index + 1): if i not in self.fragments: return False
RECURSIVE ScanFrom(_, _, _)
ScanFrom(d, j, max_index) ==
    IF j > max_index THEN TRUE
    ELSE IF ~DictHas(d, j) THEN FALSE
    ELSE ScanFrom(d, j + 1, max_index)

\* mutant of is_puzzle_complete: the key inserted last is taken for the greatest
is_puzzle_complete_last(d) ==
    IF Len(d) = 0 THEN FALSE ELSE ScanFrom(d, 0, d[Len(d)].k)

\* mutant of is_puzzle_complete: the scan starts at index 1
is_puzzle_complete_from1(d) ==
    IF Len(d) = 0 THEN FALSE ELSE ScanFrom(d, 1, MaxKey(d))

is_puzzle_complete(d) ==
    IF Len(d) = 0 THEN FALSE ELSE ScanFrom(d, 0, MaxKey(d))

\* mutant of SortedItems: the items in insertion order
UnsortedItems(d) == d

\* sorted(self.fragments.items()): by key, ascending; the j-th item is the one
\* with j - 1 keys below its own
SortedItems(d) ==
    [j \in 1..Len(d) |->
        d[CHOOSE n \in 1..Len(d) :
            Cardinality({m \in 1..Len(d) : d[m].k < d[n].k}) = j - 1]]

\* ' '.join(texts)
RECURSIVE JoinSpace(_)
JoinSpace(items) ==
    IF Len(items) = 0 THEN ""
    ELSE IF Len(items) = 1 THEN items[1].v.text
    ELSE items[1].v.text \o " " \o JoinSpace(Tail(items))

get_assembled_message(d) ==
    IF ~is_puzzle_complete(d) THEN "" ELSE JoinSpace(SortedItems(d))

(***************************************************************************)
(* fetch_batch: one task per identifier start_id, start_id+1, ...          *)
(* A task is created, then in flight (its request issued), then done; res  *)
(* is <<>> for None and <<fragment>> for a Fragment.                       *)
(***************************************************************************)
fetch_batch(start_id, batch_size) ==
    [t \in 1..batch_size |->
        [id |-> start_id + t - 1, st |-> "created", res |-> <<>>]]

AllSettled(ts) == \A t \in 1..Len(ts) : ts[t].st = "done"

\* [r for r in results if isinstance(r, Fragment)], in task order
BatchResults(ts) ==
    LET settled == SelectSeq(ts, LAMBDA task : task.res # <<>>)
    IN  [n \in 1..Len(settled) |-> settled[n].res[1]]

\* for fragment in fragments: self.fragments[fragment.index] = fragment
\* (the fragments from the n-th on, into the store d; the store after each
\* assignment is bound as a value before the next one is applied)
RECURSIVE IngestFrom(_, _, _)
IngestFrom(d, found, n) ==
    IF n > Len(found) THEN d
    ELSE CHOOSE after \in
            {IngestFrom(stored, found, n + 1) :
                stored \in {DictSet(d, found[n].index, found[n])}} : TRUE

Ingest(d, found) == IngestFrom(d, found, 1)

\* data['index'] is taken as it comes.  NotAnInteger stands for an index that
\* is hashable but no integer (a JSON string): `max_index + 1`, or max() over
\* keys of both kinds, raises TypeError in is_puzzle_complete.
NotAnInteger == 0 - 1

WellTyped(found) == \A n \in 1..Len(found) : found[n].index # NotAnInteger

Letters == <<"", "A", "B", "C", "D", "E", "F", "G", "H", "I", "J", "K">>

\* the text the services of Spec hold under an identifier; one of them is empty
TextFor(id) == Letters[id]

(***************************************************************************)
(* The remote service.  It holds a fragment under some identifiers and     *)
(* nothing under the others, and never changes what it holds.  What it     *)
(* holds under an identifier of open_ids is fixed by the first answer it   *)
(* gives for that identifier.                                              *)
(***************************************************************************)
Held(id) == {f \in service : f.id = id}

\* the fragments the service may turn out to hold under an identifier
MayHold(id) ==
    IF id \in open_ids
    THEN IF Cardinality(service) < MaxFragments
         THEN {Fragment(id, index, TextFor(id)) : index \in 0..MaxIndex}
         ELSE {}
    ELSE Held(id)

InFlight == {t \in 1..Len(tasks) : tasks[t].st = "inflight"}

Awaiting == pc \in {"p1_wait", "p2_wait", "p3_wait"}

\* every task of the batch has taken its first step: the event loop runs the
\* tasks created by fetch_batch, in order, before it handles any response
AllStarted == \A t \in 1..Len(tasks) : tasks[t].st # "created"

\* mutant of StartFetch: no seen_ids guard, the request is always issued
StartFetchNoGuard(t) ==
    /\ Awaiting
    /\ t \in 1..Len(tasks)
    /\ tasks[t].st = "created"
    /\ \A u \in 1..(t - 1) : tasks[u].st # "created"
    /\ tasks' = [tasks EXCEPT ![t].st = "inflight"]
    /\ probed' = probed \cup {tasks[t].id}
    /\ UNCHANGED <<cfg, service, open_ids, reliable, random_ids, fragments,
                   seen_ids, pc, i, remaining_ids, search_id,
                   consecutive_failures, message, idle_windows, failures>>

\* fetch_fragment up to its first suspension: the seen_ids guard, then the request.
\* Tasks take their first step in the order they were created.
StartFetch(t) ==
    /\ Awaiting
    /\ t \in 1..Len(tasks)
    /\ tasks[t].st = "created"
    /\ \A u \in 1..(t - 1) : tasks[u].st # "created"
    /\ IF tasks[t].id \in seen_ids
       THEN /\ tasks' = [tasks EXCEPT ![t].st = "done"]
            /\ probed' = probed
       ELSE /\ tasks' = [tasks EXCEPT ![t].st = "inflight"]
            /\ probed' = probed \cup {tasks[t].id}
    /\ UNCHANGED <<cfg, service, open_ids, reliable, random_ids, fragments,
                   seen_ids, pc, i, remaining_ids, search_id,
                   consecutive_failures, message, idle_windows, failures>>

\* status 200 with a well-formed body: the identifier is recorded, the Fragment returned
RespondFound(t) ==
    /\ Awaiting
    /\ t \in InFlight
    /\ AllStarted
    /\ \E f \in MayHold(tasks[t].id) :
          /\ tasks' = [tasks EXCEPT ![t].st = "done", ![t].res = <<f>>]
          /\ service' = service \cup {f}
    /\ open_ids' = open_ids \ {tasks[t].id}
    /\ seen_ids' = seen_ids \cup {tasks[t].id}
    /\ UNCHANGED <<cfg, reliable, random_ids, fragments, pc, i, remaining_ids,
                   search_id, consecutive_failures, message, probed,
                   idle_windows, failures>>

\* the service holds nothing under the identifier (a non-200 status): None
RespondAbsent(t) ==
    /\ Awaiting
    /\ t \in InFlight
    /\ AllStarted
    /\ Held(tasks[t].id) = {}
    /\ tasks' = [tasks EXCEPT ![t].st = "done"]
    /\ open_ids' = open_ids \ {tasks[t].id}
    /\ UNCHANGED <<cfg, service, reliable, random_ids, fragments, seen_ids, pc,
                   i, remaining_ids, search_id, consecutive_failures, message,
                   probed, idle_windows, failures>>

\* a probe of a held fragment fails (a malformed body, a network error, a
\* timeout): the exception is caught, None
RespondFailed(t) ==
    /\ Awaiting
    /\ t \in InFlight
    /\ AllStarted
    /\ ~reliable
    /\ failures < MaxFailures
    /\ \E f \in MayHold(tasks[t].id) : service' = service \cup {f}
    /\ open_ids' = open_ids \ {tasks[t].id}
    /\ failures' = failures + 1
    /\ tasks' = [tasks EXCEPT ![t].st = "done"]
    /\ UNCHANGED <<cfg, reliable, random_ids, fragments, seen_ids, pc, i,
                   remaining_ids, search_id, consecutive_failures, message,
                   probed, idle_windows>>

\* status 200 and a body with the three keys, whose index is no integer: the
\* Fragment is built as it is, the identifier recorded, the Fragment returned
RespondMalformed(t) ==
    /\ Awaiting
    /\ t \in InFlight
    /\ AllStarted
    /\ tasks[t].id \in open_ids
    /\ Cardinality(service) < MaxFragments
    /\ Cardinality({f \in service : f.index = NotAnInteger}) < MaxMalformed
    /\ LET f == Fragment(tasks[t].id, NotAnInteger, TextFor(tasks[t].id))
       IN  /\ tasks' = [tasks EXCEPT ![t].st = "done", ![t].res = <<f>>]
           /\ service' = service \cup {f}
    /\ open_ids' = open_ids \ {tasks[t].id}
    /\ seen_ids' = seen_ids \cup {tasks[t].id}
    /\ UNCHANGED <<cfg, reliable, random_ids, fragments, pc, i, remaining_ids,
                   search_id, consecutive_failures, message, probed,
                   idle_windows, failures>>

\* a whole batch settled in one step by a reliable service: every task takes its
\* first step, then every request is answered
SettledTask(task) ==
    IF task.id \in seen_ids \/ Held(task.id) = {}
    THEN [task EXCEPT !.st = "done"]
    ELSE [task EXCEPT !.st = "done", !.res = <<CHOOSE f \in Held(task.id) : TRUE>>]

SettleBatch ==
    /\ Awaiting
    /\ reliable
    /\ open_ids = {}
    /\ ~AllSettled(tasks)
    /\ \A t \in 1..Len(tasks) : tasks[t].st = "created"
    /\ tasks' = [t \in 1..Len(tasks) |-> SettledTask(tasks[t])]
    /\ probed' = probed \cup {tasks[t].id : t \in {u \in 1..Len(tasks) : tasks[u].id \notin seen_ids}}
    /\ seen_ids' = seen_ids \cup
          {tasks[t].id : t \in {u \in 1..Len(tasks) : Held(tasks[u].id) # {}}}
    /\ UNCHANGED <<cfg, service, open_ids, reliable, random_ids, fragments, pc, i,
                   remaining_ids, search_id, consecutive_failures, message,
                   idle_windows, failures>>

(***************************************************************************)
(* smart_search_strategy                                                   *)
(***************************************************************************)
\* mutant of Phase1BatchSize: the whole sample in one batch
Phase1BatchSizeAll == Len(random_ids)

\* batch_size = min(self.max_concurrent, len(random_ids))
Phase1BatchSize == Min(cfg.max_concurrent, Len(random_ids))

\* range(0, len(random_ids), batch_size) is exhausted at i; with a negative
\* step the range is empty (a step of zero raises, see P1Raise)
Phase1RangeDone == IF Phase1BatchSize > 0 THEN i >= Len(random_ids) ELSE TRUE

\* seq[i:i + n] of Python, i counted from 0
Slice(seq, from, n) == SubSeq(seq, from + 1, Min(from + n, Len(seq)))

\* search_id = 1; consecutive_failures = 0
EnterPhase3 ==
    /\ pc' = "p3"
    /\ search_id' = 1
    /\ consecutive_failures' = 0
    /\ idle_windows' = 0

\* Phase 1: fragments = await self.fetch_batch(session, batch[0], len(batch))
P1Dispatch ==
    /\ pc = "p1"
    /\ Phase1BatchSize > 0
    /\ ~Phase1RangeDone
    /\ LET batch == Slice(random_ids, i, Phase1BatchSize)
       IN  tasks' = fetch_batch(batch[1], Len(batch))
    /\ pc' = "p1_wait"
    /\ UNCHANGED <<cfg, service, open_ids, reliable, random_ids, fragments, seen_ids, i,
                   remaining_ids, search_id, consecutive_failures, message,
                   probed, idle_windows, failures>>

\* Phase 1: the batch's fragments are stored; return if the puzzle is complete
P1Ingest ==
    /\ pc = "p1_wait"
    /\ AllSettled(tasks)
    /\ WellTyped(BatchResults(tasks))
    /\ fragments' = Ingest(fragments, BatchResults(tasks))
    /\ tasks' = <<>>
    /\ IF is_puzzle_complete(fragments')
       THEN pc' = "solve" /\ i' = i
       ELSE pc' = "p1" /\ i' = i + Phase1BatchSize
    /\ UNCHANGED <<cfg, service, open_ids, reliable, random_ids, seen_ids, remaining_ids,
                   search_id, consecutive_failures, message, probed,
                   idle_windows, failures>>

\* a batch holding an ill-typed Fragment: the results are stored, and the next
\* is_puzzle_complete() raises TypeError, which leaves the strategy and
\* solve_puzzle (in any of the three phases)
IngestRaise ==
    /\ Awaiting
    /\ AllSettled(tasks)
    /\ ~WellTyped(BatchResults(tasks))
    /\ fragments' = Ingest(fragments, BatchResults(tasks))
    /\ tasks' = <<>>
    /\ pc' = "raised"
    /\ UNCHANGED <<cfg, service, open_ids, reliable, random_ids, seen_ids, i,
                   remaining_ids, search_id, consecutive_failures, message,
                   probed, idle_windows, failures>>

\* missing_indices of Phase 2
MissingIndices(d) == {j \in 0..MaxKey(d) : ~DictHas(d, j)}

\* remaining_ids = [id for id in search_range if id not in self.seen_ids].
\* The list is kept as the end of its range and the identifiers left out of it:
\* its n-th element is the n-th smallest identifier not left out.
RemainingIds(range_end, seen) ==
    [stop |-> range_end, skipped |-> seen \cap (1..(range_end - 1))]

\* len(remaining_ids)
RemainingLen(r) == (r.stop - 1) - Cardinality(r.skipped)

\* remaining_ids[n], n counted from 0: the identifier that has n identifiers of
\* the list below it
RemainingAt(r, n) ==
    CHOOSE id \in (n + 1)..(n + 1 + Cardinality(r.skipped)) :
        /\ id \notin r.skipped
        /\ id - 1 - Cardinality({s \in r.skipped : s < id}) = n

\* mutant of P1Exit: Phase 2 is entered whatever the store holds
P1ExitAlwaysPhase2 ==
    /\ pc = "p1"
    /\ Phase1BatchSize # 0
    /\ Phase1RangeDone
    /\ remaining_ids' = RemainingIds(cfg.gap_range, seen_ids)
    /\ i' = 0
    /\ pc' = "p2"
    /\ UNCHANGED <<cfg, service, open_ids, reliable, random_ids, fragments, seen_ids,
                   tasks, message, probed, failures, search_id,
                   consecutive_failures, idle_windows>>

\* Phase 1's sample is exhausted: Phase 2 if there is a gap to fill, else Phase 3
P1Exit ==
    /\ pc = "p1"
    /\ Phase1BatchSize # 0
    /\ Phase1RangeDone
    /\ IF Len(fragments) > 0 /\ MissingIndices(fragments) # {}
       THEN /\ remaining_ids' = RemainingIds(cfg.gap_range, seen_ids)
            /\ i' = 0
            /\ pc' = "p2"
            /\ UNCHANGED <<search_id, consecutive_failures, idle_windows>>
       ELSE /\ EnterPhase3
            /\ UNCHANGED <<remaining_ids, i>>
    /\ UNCHANGED <<cfg, service, open_ids, reliable, random_ids, fragments, seen_ids,
                   tasks, message, probed, failures>>

\* range(0, len(random_ids), 0) raises ValueError: it leaves the strategy and
\* solve_puzzle, before any batch
P1Raise ==
    /\ pc = "p1"
    /\ Phase1BatchSize = 0
    /\ pc' = "raised"
    /\ UNCHANGED <<cfg, service, open_ids, reliable, random_ids, fragments, seen_ids,
                   i, remaining_ids, search_id, consecutive_failures, tasks,
                   message, probed, idle_windows, failures>>

\* mutant of P2Dispatch: no completeness check before the next batch
P2DispatchNoCheck ==
    /\ pc = "p2"
    /\ i < RemainingLen(remaining_ids)
    /\ tasks' = fetch_batch(RemainingAt(remaining_ids, i),
                            Min(cfg.max_concurrent, RemainingLen(remaining_ids) - i))
    /\ pc' = "p2_wait"
    /\ UNCHANGED <<cfg, service, open_ids, reliable, random_ids, fragments,
                   seen_ids, i, remaining_ids, search_id, consecutive_failures,
                   message, probed, idle_windows, failures>>

\* Phase 2: the next batch of remaining_ids
P2Dispatch ==
    /\ pc = "p2"
    /\ i < RemainingLen(remaining_ids)
    /\ ~is_puzzle_complete(fragments)
    /\ tasks' = fetch_batch(RemainingAt(remaining_ids, i),
                            Min(cfg.max_concurrent, RemainingLen(remaining_ids) - i))
    /\ pc' = "p2_wait"
    /\ UNCHANGED <<cfg, service, open_ids, reliable, random_ids, fragments, seen_ids, i,
                   remaining_ids, search_id, consecutive_failures, message,
                   probed, idle_windows, failures>>

P2Ingest ==
    /\ pc = "p2_wait"
    /\ AllSettled(tasks)
    /\ WellTyped(BatchResults(tasks))
    /\ fragments' = Ingest(fragments, BatchResults(tasks))
    /\ tasks' = <<>>
    /\ i' = i + cfg.max_concurrent
    /\ pc' = "p2"
    /\ UNCHANGED <<cfg, service, open_ids, reliable, random_ids, seen_ids, remaining_ids,
                   search_id, consecutive_failures, message, probed,
                   idle_windows, failures>>

\* Phase 2 ends: remaining_ids is exhausted, or the puzzle is complete (break)
P2Exit ==
    /\ pc = "p2"
    /\ i >= RemainingLen(remaining_ids) \/ is_puzzle_complete(fragments)
    /\ EnterPhase3
    /\ UNCHANGED <<cfg, service, open_ids, reliable, random_ids, fragments, seen_ids, i,
                   remaining_ids, tasks, message, probed, failures>>

\* batch_ids of Phase 3: the unseen identifiers of the window
BatchIds ==
    SelectSeq([k \in 1..cfg.max_concurrent |-> search_id + k - 1],
              LAMBDA id : id \notin seen_ids)

\* mutant of GiveUpReached: the search gives up one window early
GiveUpReachedEarly == consecutive_failures >= cfg.give_up - 1

\* consecutive_failures < 100, negated
GiveUpReached == consecutive_failures >= cfg.give_up

\* while not self.is_puzzle_complete() and consecutive_failures < 100
Phase3Running ==
    /\ pc = "p3"
    /\ ~is_puzzle_complete(fragments)
    /\ ~GiveUpReached

\* if not batch_ids: search_id += self.max_concurrent; continue
P3Skip ==
    /\ Phase3Running
    /\ Len(BatchIds) = 0
    /\ cfg.max_concurrent > 0 \/ idle_windows < MaxSpin
    /\ search_id' = search_id + cfg.max_concurrent
    /\ idle_windows' = idle_windows + 1
    /\ UNCHANGED <<cfg, service, open_ids, reliable, random_ids, fragments, seen_ids, pc,
                   i, remaining_ids, consecutive_failures, tasks, message,
                   probed, failures>>

P3Dispatch ==
    /\ Phase3Running
    /\ Len(BatchIds) > 0
    /\ tasks' = fetch_batch(BatchIds[1], Len(BatchIds))
    /\ pc' = "p3_wait"
    /\ UNCHANGED <<cfg, service, open_ids, reliable, random_ids, fragments, seen_ids, i,
                   remaining_ids, search_id, consecutive_failures, message,
                   probed, idle_windows, failures>>

P3Ingest ==
    /\ pc = "p3_wait"
    /\ AllSettled(tasks)
    /\ WellTyped(BatchResults(tasks))
    /\ LET found == BatchResults(tasks)
       IN  IF Len(found) > 0
           THEN /\ consecutive_failures' = 0
                /\ idle_windows' = 0
                /\ fragments' = Ingest(fragments, found)
           ELSE /\ consecutive_failures' = consecutive_failures + 1
                /\ idle_windows' = idle_windows + 1
                /\ fragments' = fragments
    /\ search_id' = search_id + cfg.max_concurrent
    /\ tasks' = <<>>
    /\ pc' = "p3"
    /\ UNCHANGED <<cfg, service, open_ids, reliable, random_ids, seen_ids, i,
                   remaining_ids, message, probed, failures>>

\* the while loop of Phase 3 ends and smart_search_strategy returns
P3Exit ==
    /\ pc = "p3"
    /\ is_puzzle_complete(fragments) \/ GiveUpReached
    /\ pc' = "solve"
    /\ UNCHANGED <<cfg, service, open_ids, reliable, random_ids, fragments, seen_ids, i,
                   remaining_ids, search_id, consecutive_failures, tasks,
                   message, probed, idle_windows, failures>>

(***************************************************************************)
(* solve_puzzle, after the strategy has returned                           *)
(***************************************************************************)
SolveReturn ==
    /\ pc = "solve"
    /\ message' = IF is_puzzle_complete(fragments)
                  THEN get_assembled_message(fragments)
                  ELSE ""
    /\ pc' = "done"
    /\ UNCHANGED <<cfg, service, open_ids, reliable, random_ids, fragments, seen_ids, i,
                   remaining_ids, search_id, consecutive_failures, tasks,
                   probed, idle_windows, failures>>

(***************************************************************************)
(* The runs                                                                *)
(***************************************************************************)
\* the identifiers a service of Spec may hold a fragment under
ServiceIds == 1..(SmallGapRange - 1)

\* random.sample(range(1, low_range), size): every sequence of distinct identifiers
Samples(c) ==
    {s \in [1..Min(c.sample_size, c.low_range) -> 1..(c.low_range - 1)] :
        \A a, b \in DOMAIN s : a # b => s[a] # s[b]}

\* the state solve_puzzle starts the strategy in
Start ==
    /\ fragments = <<>>
    /\ seen_ids = {}
    /\ pc = "p1"
    /\ i = 0
    /\ remaining_ids = RemainingIds(1, {})
    /\ search_id = 0
    /\ consecutive_failures = 0
    /\ tasks = <<>>
    /\ message = ""
    /\ probed = {}
    /\ idle_windows = 0
    /\ failures = 0

Init ==
    /\ cfg = SmallCfg
    /\ service = {}
    /\ open_ids = ServiceIds
    /\ reliable = FALSE
    /\ random_ids \in Samples(cfg)
    /\ Start

Strategy ==
    \/ P1Dispatch \/ P1Ingest \/ P1Exit
    \/ P2Dispatch \/ P2Ingest \/ P2Exit
    \/ P3Skip \/ P3Dispatch \/ P3Ingest \/ P3Exit
    \/ SolveReturn

Next ==
    \/ Strategy
    \/ \E t \in 1..Len(tasks) : StartFetch(t)
    \/ \E t \in 1..Len(tasks) : RespondFound(t)
    \/ \E t \in 1..Len(tasks) : RespondAbsent(t)
    \/ \E t \in 1..Len(tasks) : RespondFailed(t)

Spec == Init /\ [][Next]_vars

(***************************************************************************)
(* SpecCfg: the runs of Spec with max_concurrent set to any value of       *)
(* ConcurrentValues, non-positive ones included (nothing in the source     *)
(* checks the attribute) and one above that of Spec.                       *)
(***************************************************************************)
ConcurrentValues == (0 - SmallConcurrent)..(SmallConcurrent + 1)

InitCfg ==
    /\ \E m \in ConcurrentValues : cfg = [SmallCfg EXCEPT !.max_concurrent = m]
    /\ service = {}
    /\ open_ids = ServiceIds
    /\ reliable = FALSE
    /\ random_ids \in Samples(cfg)
    /\ Start

NextCfg == Next \/ P1Raise

SpecCfg == InitCfg /\ [][NextCfg]_vars

(***************************************************************************)
(* SpecMalformed: the runs of Spec with a service that may also answer     *)
(* status 200 with a fragment whose index is no integer.                   *)
(***************************************************************************)
NextMalformed ==
    \/ Next
    \/ \E t \in 1..Len(tasks) : RespondMalformed(t)
    \/ IngestRaise

SpecMalformed == Init /\ [][NextMalformed]_vars

(***************************************************************************)
(* SpecE2E: the limits of the source, a reliable service, a batch settled  *)
(* in one step.  The event loop keeps running the one control flow, and a  *)
(* reliable service answers every request: weak fairness of the step.      *)
(***************************************************************************)
NoFragments == {}

HelloWorld == {Fragment(5, 0, "Hello"), Fragment(9, 1, "World")}

\* a fragment under every identifier of Phase 3's first window, none of index 0
FullWindow == {Fragment(id, id, "w") : id \in 1..MAX_CONCURRENT}

\* the k-th smallest identifier that is neither a nor b
Filler(k, a, b) ==
    LET lo == Min(a, b)
        hi == IF a < b THEN b ELSE a
        k1 == IF k >= lo THEN k + 1 ELSE k
    IN  IF k1 >= hi THEN k1 + 1 ELSE k1

\* a sample whose first batch starts with a and whose second batch starts with b
LedSample(c, a, b) ==
    [k \in 1..Min(c.sample_size, c.low_range) |->
        IF k = 1 THEN a
        ELSE IF k = Min(c.max_concurrent, c.sample_size) + 1 THEN b
        ELSE Filler(k, a, b)]

SampleStarts(sv) ==
    IF sv = FullWindow THEN {1, LOW_RANGE - 1}
    ELSE (1..MaxStart) \cup {LOW_RANGE - 1}

InitE2E ==
    /\ cfg = DefaultCfg
    /\ service \in {NoFragments, HelloWorld, FullWindow}
    /\ open_ids = {}
    /\ reliable = TRUE
    /\ \E a, b \in SampleStarts(service) :
          /\ a # b
          /\ random_ids = LedSample(cfg, a, b)
    /\ Start

NextE2E == Strategy \/ SettleBatch

SpecE2E == InitE2E /\ [][NextE2E]_vars /\ WF_vars(NextE2E)

(***************************************************************************)
(* SpecStore: the store alone.  Fragments are stored in every order, then  *)
(* solve_puzzle reads the store.                                           *)
(***************************************************************************)
\* self.fragments[fragment.index] = fragment, for any fragment
StorePut ==
    /\ pc = "store"
    /\ \E id \in 1..StoreMaxId, index \in 0..StoreMaxIndex :
          fragments' = DictSet(fragments, index, Fragment(id, index, TextFor(id)))
    /\ UNCHANGED <<cfg, service, open_ids, reliable, random_ids, seen_ids, pc,
                   i, remaining_ids, search_id, consecutive_failures, tasks,
                   message, probed, idle_windows, failures>>

\* the strategy returns with the store as it stands
StoreClose ==
    /\ pc = "store"
    /\ pc' = "solve"
    /\ UNCHANGED <<cfg, service, open_ids, reliable, random_ids, fragments,
                   seen_ids, i, remaining_ids, search_id, consecutive_failures,
                   tasks, message, probed, idle_windows, failures>>

InitStore ==
    /\ cfg = SmallCfg
    /\ service = {}
    /\ open_ids = {}
    /\ reliable = TRUE
    /\ random_ids = <<>>
    /\ fragments = <<>>
    /\ seen_ids = {}
    /\ pc = "store"
    /\ i = 0
    /\ remaining_ids = RemainingIds(1, {})
    /\ search_id = 0
    /\ consecutive_failures = 0
    /\ tasks = <<>>
    /\ message = ""
    /\ probed = {}
    /\ idle_windows = 0
    /\ failures = 0

NextStore == StorePut \/ StoreClose \/ SolveReturn

SpecStore == InitStore /\ [][NextStore]_vars

(***************************************************************************)
(* What the claims speak of, stated on the store's content as a set        *)
(***************************************************************************)
Indices == {fragments[j].k : j \in 1..Len(fragments)}

\* non-empty, and every integer of [0, M] is a key, M the greatest index held
Gapless ==
    /\ Indices # {}
    /\ LET M == CHOOSE m \in Indices : \A k \in Indices : k <= m
       IN  \A j \in 0..M : j \in Indices

\* the fragment stored at an index
StoredAt(index) ==
    (CHOOSE e \in {fragments[j] : j \in 1..Len(fragments)} : e.k = index).v

\* the texts of indices from .. to in ascending order, one space between two
RECURSIVE TextsFrom(_, _)
TextsFrom(from, to) ==
    IF from = to THEN StoredAt(from).text
    ELSE StoredAt(from).text \o " " \o TextsFrom(from + 1, to)

OrderedMessage == TextsFrom(0, Cardinality(Indices) - 1)

Returned == pc = "done"

(***************************************************************************)
(* C1: solve_puzzle returns the assembled message exactly when the store   *)
(* is complete when the strategy returns, and the empty message otherwise; *)
(* and what a successful solve returns differs from what a failed solve    *)
(* returns (the empty message), so that the caller can tell them apart.    *)
(***************************************************************************)
C1_SolveResultDistinguishable ==
    Returned =>
        /\ message = (IF Gapless THEN OrderedMessage ELSE "")
        /\ Gapless => message # ""

(***************************************************************************)
(* C2: is_puzzle_complete is true iff the store is non-empty and holds     *)
(* every index of [0, M], M the greatest index held; it depends on the set *)
(* of indices only, whatever the order of insertion.                       *)
(***************************************************************************)
C2_CompleteIffGapless == is_puzzle_complete(fragments) <=> Gapless

\* the indices 0, 1, 2 were stored with 2 first and 0 last, or 0 and 2 only
C2_Witness ==
    \/ /\ Len(fragments) = 3
       /\ fragments[1].k = 2
       /\ fragments[3].k = 0
       /\ is_puzzle_complete(fragments)
    \/ /\ Indices = {0, 2}
       /\ ~is_puzzle_complete(fragments)

(***************************************************************************)
(* C3: get_assembled_message is, for a complete store, the texts in        *)
(* ascending index order joined by one space, whatever the order of        *)
(* insertion (a store of index 0 alone gives that text and nothing more),  *)
(* and the empty string for an incomplete store; it is what solve_puzzle   *)
(* returns.                                                                *)
(***************************************************************************)
C3_AssembledInIndexOrder ==
    /\ get_assembled_message(fragments) = (IF Gapless THEN OrderedMessage ELSE "")
    /\ Indices = {0} => get_assembled_message(fragments) = StoredAt(0).text
    /\ Returned => message = get_assembled_message(fragments)

\* "A", "B", "C" stored at 0, 1, 2 in the order 2, 0, 1 and returned as "A B C"
C3_Witness ==
    /\ Returned
    /\ Len(fragments) = 3
    /\ fragments[1].k = 2
    /\ fragments[2].k = 0
    /\ message = "A B C"

(***************************************************************************)
(* C4: with a reliable service holding exactly id 5 -> index 0 "Hello" and *)
(* id 9 -> index 1 "World", solve_puzzle terminates and returns            *)
(* "Hello World", whatever the sample of Phase 1.                          *)
(***************************************************************************)
C4_HelloWorldSolved ==
    (service = HelloWorld /\ pc = "p1") ~> (Returned /\ message = "Hello World")

\* solved after Phase 1 found "World" alone and Phase 2 filled the gap
C4_Witness ==
    /\ service = HelloWorld
    /\ Returned
    /\ message = "Hello World"
    /\ RemainingLen(remaining_ids) > 0

(***************************************************************************)
(* C5: with a service that holds no fragment, solve_puzzle terminates and  *)
(* returns the empty message, and it does so with the consecutive-failure  *)
(* counter of Phase 3 at the give-up threshold of 100.                     *)
(***************************************************************************)
C5_EmptyServiceGivesUp ==
    (service = NoFragments /\ pc = "p1")
        ~> (Returned /\ message = "" /\ consecutive_failures = GIVE_UP)

C5_Witness ==
    /\ service = NoFragments
    /\ Returned
    /\ message = ""
    /\ consecutive_failures = GIVE_UP
    /\ idle_windows = GIVE_UP

(***************************************************************************)
(* C6: once the service returns no further fragment, the loop of Phase 3   *)
(* ends after at most give-up-threshold more windows: the windows visited  *)
(* since a fragment was last found never exceed the threshold.             *)
(***************************************************************************)
C6_IdleWindowsWithinThreshold == idle_windows <= cfg.give_up

(***************************************************************************)
(* C7: no request is issued for an identifier that is in seen_ids: a task  *)
(* that fetch_batch creates for such an identifier never goes in flight.   *)
(***************************************************************************)
RequestIssued(id) ==
    \E t \in 1..Len(tasks') :
        /\ tasks'[t].id = id
        /\ tasks'[t].st = "inflight"
        /\ ~(t <= Len(tasks) /\ tasks[t].id = id /\ tasks[t].st = "inflight")

ValuesAt(d, index) == {d[j].v : j \in {n \in 1..Len(d) : d[n].k = index}}

OneFragmentPerIndex ==
    \A j, n \in 1..Len(fragments) :
        /\ fragments[j].v.index = fragments[j].k
        /\ j # n => fragments[j].k # fragments[n].k

LastWriteWins ==
    LET found == BatchResults(tasks)
        carried == {found[j].index : j \in 1..Len(found)}
    IN  \A index \in DictKeys(fragments) \cup DictKeys(fragments') \cup carried :
            LET hits == {j \in 1..Len(found) : found[j].index = index}
            IN  IF hits = {}
                THEN ValuesAt(fragments', index) = ValuesAt(fragments, index)
                ELSE ValuesAt(fragments', index) =
                        {found[CHOOSE j \in hits : \A n \in hits : n <= j]}

C8_OnePerIndexLastWins ==
    /\ []OneFragmentPerIndex
    /\ [][fragments' # fragments => LastWriteWins]_vars

\* a fragment that was ingested has been overwritten by a later one of its index
C8_Witness ==
    /\ tasks = <<>>
    /\ \E f \in service :
          /\ f.id \in seen_ids
          /\ ValuesAt(fragments, f.index) # {}
          /\ f \notin ValuesAt(fragments, f.index)

(***************************************************************************)
(* C9: once the store is complete the strategy stops: no batch is          *)
(* dispatched, no request is issued and nothing more is stored, in any of  *)
(* the three phases.                                                       *)
(***************************************************************************)
C9_StopsWhenComplete ==
    /\ [](Gapless => tasks = <<>>)
    /\ [][Gapless => /\ tasks' = <<>>
                     /\ probed' = probed
                     /\ fragments' = fragments]_vars

\* Phase 2 filled the last gap and is about to break out of its loop
C9_Witness ==
    /\ pc = "p2"
    /\ Gapless
    /\ i < RemainingLen(remaining_ids)

(***************************************************************************)
(* C10: at most max_concurrent fetches are in flight: a batch has at most  *)
(* max_concurrent tasks, and the strategy dispatches a batch only when no  *)
(* task of an earlier batch is left.                                       *)
(***************************************************************************)
C10_InFlightBounded ==
    /\ Len(tasks) <= cfg.max_concurrent
    /\ Cardinality(InFlight) <= cfg.max_concurrent
    /\ ~Awaiting => tasks = <<>>

\* a full batch, every fetch of it in flight
C10_Witness ==
    /\ cfg.max_concurrent > 1
    /\ Cardinality(InFlight) = cfg.max_concurrent

(***************************************************************************)
(* C11: the shared store (the fragments map and seen_ids) is written only  *)
(* by the strategy once the batch has fully settled: no step changes       *)
(* fragments or seen_ids while a task of the batch is not yet done.        *)
(***************************************************************************)
C11_StoreSingleWriter ==
    [][(fragments' # fragments \/ seen_ids' # seen_ids) => AllSettled(tasks)]_vars

(***************************************************************************)
(* C12: seen_ids records every identifier probed: once a batch has settled *)
(* and been ingested, every identifier a request was issued for is in      *)
(* seen_ids, whatever the outcome; and seen_ids never loses an identifier. *)
(***************************************************************************)
SeenOnlyGrows == [][seen_ids \subseteq seen_ids']_vars

C12_SeenRecordsProbed ==
    /\ [](tasks = <<>> => probed \subseteq seen_ids)
    /\ SeenOnlyGrows

(***************************************************************************)
(* C13: a non-positive max_concurrent is rejected before any request: with *)
(* such a configuration solve_puzzle issues no request and never gets past *)
(* the start of the strategy other than by raising.                        *)
(***************************************************************************)
C13_BadConfigRejected ==
    cfg.max_concurrent <= 0 => (probed = {} /\ pc \in {"p1", "raised"})

(***************************************************************************)
(* C14: in Phase 1 the identifiers probed are exactly those of the sample: *)
(* no identifier outside the sample or outside [1, low_range) is probed,   *)
(* none is probed twice, and when the sample is exhausted every identifier *)
(* of it has been probed.                                                  *)
(***************************************************************************)
InPhase1 == pc \in {"p1", "p1_wait"}

SampleIds == {random_ids[k] : k \in DOMAIN random_ids}

C14_Phase1ProbesSample ==
    /\ [](InPhase1 => /\ probed \subseteq SampleIds
                      /\ probed \subseteq 1..(cfg.low_range - 1))
    /\ [](pc = "p1" /\ Phase1RangeDone => probed = SampleIds)
    /\ [][InPhase1 => \A id \in probed : ~RequestIssued(id)]_vars

(***************************************************************************)
(* C15: unless completeness stops Phase 2 earlier, every identifier of     *)
(* [1, gap_range) that was not in seen_ids when the phase started has had  *)
(* a request issued for it when the phase ends.                            *)
(***************************************************************************)
RemainingSet(r) == (1..(r.stop - 1)) \ r.skipped

C15_Phase2ProbesAllRemaining ==
    [][pc = "p2" /\ pc' = "p3" /\ ~Gapless
          => RemainingSet(remaining_ids) \subseteq probed]_vars

(***************************************************************************)
(* C16: the batch of every window Phase 3 visits probes every identifier   *)
(* of the window that is not in seen_ids and no identifier outside the     *)
(* window, and the windows follow each other from identifier 1 in steps of *)
(* max_concurrent.                                                         *)
(***************************************************************************)
Window == search_id..(search_id + cfg.max_concurrent - 1)

TaskIds(ts) == {ts[t].id : t \in 1..Len(ts)}

C16_Phase3ProbesWindow ==
    /\ [][pc = "p3" /\ pc' = "p3_wait"
            => /\ Window \ seen_ids \subseteq TaskIds(tasks')
               /\ TaskIds(tasks') \subseteq Window]_vars
    /\ [][search_id' # search_id
            => search_id' = (IF pc \in {"p3", "p3_wait"}
                             THEN search_id + cfg.max_concurrent
                             ELSE 1)]_vars

(***************************************************************************)
(* C17: the phases run in the order 1, 2, 3 and never go back; Phase 2 is  *)
(* entered only from Phase 1, with a store that holds a fragment and is    *)
(* incomplete; Phase 3 is entered without Phase 2 only if Phase 1 found    *)
(* nothing, and dispatches a batch only while the store is incomplete.     *)
(***************************************************************************)
PhaseRank(p) ==
    CASE p \in {"p1", "p1_wait"} -> 1
      [] p \in {"p2", "p2_wait"} -> 2
      [] p \in {"p3", "p3_wait"} -> 3
      [] OTHER -> 4

C17_PhasesInOrder ==
    /\ [][PhaseRank(pc') >= PhaseRank(pc)]_vars
    /\ [][PhaseRank(pc) # 2 /\ PhaseRank(pc') = 2
            => pc = "p1" /\ Len(fragments) > 0 /\ ~Gapless]_vars
    /\ [][PhaseRank(pc) = 1 /\ PhaseRank(pc') = 3 => Len(fragments) = 0]_vars
    /\ [][pc = "p3" /\ pc' = "p3_wait" => ~Gapless]_vars

\* Phase 3 has dispatched a batch after Phase 2 ran without completing the store
C17_Witness ==
    /\ pc = "p3_wait"
    /\ RemainingLen(remaining_ids) > 0
    /\ probed # {}

(***************************************************************************)
(* C18: in Phase 3 consecutive_failures counts the windows visited since a *)
(* fragment was last found, a window whose identifiers were all seen       *)
(* included, and the phase ends only with the store complete or the        *)
(* counter at the give-up threshold.                                       *)
(***************************************************************************)
C18_CounterCountsEveryWindow ==
    /\ [](PhaseRank(pc) = 3 => consecutive_failures = idle_windows)
    /\ [][PhaseRank(pc) = 3 /\ PhaseRank(pc') # 3
            => Gapless \/ consecutive_failures = cfg.give_up]_vars

(***************************************************************************)
(* C19: a probe that fails (not found, malformed response, network error,  *)
(* timeout) yields None: a task returns a Fragment only for a well-formed  *)
(* fragment the service holds; no step of a fetch changes the fragments    *)
(* map or another task of the batch; and the strategy is never left by an  *)
(* exception.                                                              *)
(***************************************************************************)
OthersUntouched ==
    \A t \in 1..Len(tasks) :
        tasks'[t] # tasks[t] => \A u \in 1..Len(tasks) : u # t => tasks'[u] = tasks[u]

C19_FailedProbeAbsorbed ==
    /\ [](\A t \in 1..Len(tasks) :
            tasks[t].res # <<>> => /\ tasks[t].res[1] \in service
                                   /\ WellTyped(tasks[t].res))
    /\ [][Awaiting /\ pc' = pc => fragments' = fragments /\ OthersUntouched]_vars
    /\ [](pc # "raised")

(***************************************************************************)
(* C20: when the service holds one fragment per identifier and per index,  *)
(* a solve that returns with a complete store returns the service's own    *)
(* texts for the indices 0 .. M in order, one space between two, M being   *)
(* the greatest index stored; the service may hold indices above M.        *)
(***************************************************************************)
OneToOne ==
    \A f, g \in service : (f.id = g.id \/ f.index = g.index) => f = g

ServiceText(index) == (CHOOSE f \in service : f.index = index).text

RECURSIVE ServiceTexts(_)
ServiceTexts(m) ==
    IF m = 0 THEN ServiceText(0)
    ELSE ServiceTexts(m - 1) \o " " \o ServiceText(m)

C20_ReturnsServicePrefix ==
    Returned /\ Gapless /\ OneToOne =>
        /\ \A j \in Indices : \E f \in service : f.index = j
        /\ message = ServiceTexts(Cardinality(Indices) - 1)

\* solved with index 0 alone while the service holds index 1 as well
C20_Witness ==
    /\ Returned /\ Gapless /\ OneToOne
    /\ Indices = {0}
    /\ \E f \in service : f.index = 1

====
